---- MODULE Spec2Model ----
(***************************************************************************)
(* PDFs-Smart-Rename: the maintained pipeline (src/src/core/processor.py,  *)
(* src/src/services/title_generator.py, src/src/utils/text_processor.py)   *)
(* and the two retry wrappers (src/utils.py, title_generator.py).          *)
(*                                                                         *)
(* Strings are sequences of one-character strings.  A file system          *)
(* directory is a function from the names it holds to the identity of the  *)
(* content stored under each name.                                         *)
(***************************************************************************)
EXTENDS Integers, Sequences, FiniteSets, TLC

VARIABLES settings,           \* the configuration (settings.file, .api, .naming)
          directory_exists,   \* os.path.exists(directory_path)
          dir0,               \* the directory as it was when the run began
          dir,                \* the directory: name |-> content
          backup_dir_exists,  \* the backup sub-directory exists
          bak,                \* the backup sub-directory: name |-> content
          pc,                 \* position in process_directory / rename_file
          all_files,          \* the filtered listing
          idx,                \* position of the for loop in all_files
          renamed_files,      \* the mapping process_directory returns
          calls,              \* the paths rename_file was called with, in order
          last,               \* the frame of the rename_file call that has just returned
          cur,                \* the frame of the rename_file call in progress
          rx,                 \* a function called on its own: its arguments
                              \* and what the call has done
          main_return         \* what main() has returned

vars == <<settings, directory_exists, dir0, dir, backup_dir_exists, bak,
          pc, all_files, idx, renamed_files, calls, last, cur, rx, main_return>>

---------------------------------------------------------------------------
(* Bounds of the model *)

MaxRetriesCfg == 2
MaxRetriesArg == 3
MaxEntries == 2
MaxFailFirst == 3
MaxDelay == 2
MaxBackoff == 2
MaxTextLen == 3
MaxMinTextLength == 3
MaxTitleMaxLength == 3
MaxTitleMinLength == 4

\* Python's None where a string is expected; no string has this shape
None == <<"None">>

---------------------------------------------------------------------------
(* Characters and strings *)

LowerLetters ==
    {"a", "b", "x", "y", "p", "d", "f", "t", "s", "m", "i", "h", "w", "g", "e"}
UpperLetters ==
    {"A", "B", "X", "Y", "P", "D", "F", "T", "S", "M", "I", "H", "W", "G", "E"}
Digits == {"0", "1", "2", "3"}

lower_char(c) ==
    CASE c = "A" -> "a" [] c = "B" -> "b" [] c = "X" -> "x" [] c = "Y" -> "y"
      [] c = "P" -> "p" [] c = "D" -> "d" [] c = "F" -> "f" [] c = "T" -> "t"
      [] c = "S" -> "s" [] c = "M" -> "m" [] c = "I" -> "i" [] c = "H" -> "h"
      [] c = "W" -> "w" [] c = "G" -> "g" [] c = "E" -> "e"
      [] OTHER -> c

upper_char(c) ==
    CASE c = "a" -> "A" [] c = "b" -> "B" [] c = "x" -> "X" [] c = "y" -> "Y"
      [] c = "p" -> "P" [] c = "d" -> "D" [] c = "f" -> "F" [] c = "t" -> "T"
      [] c = "s" -> "S" [] c = "m" -> "M" [] c = "i" -> "I" [] c = "h" -> "H"
      [] c = "w" -> "W" [] c = "g" -> "G" [] c = "e" -> "E"
      [] OTHER -> c

\* str.lower()
lower(s) == [i \in 1..Len(s) |-> lower_char(s[i])]

\* str.capitalize(): first character upper-cased, the rest lower-cased
capitalize(s) ==
    [i \in 1..Len(s) |-> IF i = 1 THEN upper_char(s[i]) ELSE lower_char(s[i])]

IsSpace(c) == c = " "

RECURSIVE lstrip(_)
lstrip(s) == IF s # <<>> /\ IsSpace(Head(s)) THEN lstrip(Tail(s)) ELSE s

RECURSIVE rstrip(_)
rstrip(s) ==
    IF s # <<>> /\ IsSpace(s[Len(s)]) THEN rstrip(SubSeq(s, 1, Len(s) - 1)) ELSE s

\* str.strip()
strip(s) == rstrip(lstrip(s))

\* str.split() with no argument: the maximal runs of non-whitespace
RECURSIVE split_acc(_, _, _)
split_acc(s, word, acc) ==
    IF s = <<>>
    THEN IF word = <<>> THEN acc ELSE Append(acc, word)
    ELSE IF IsSpace(Head(s))
         THEN split_acc(Tail(s), <<>>, IF word = <<>> THEN acc ELSE Append(acc, word))
         ELSE split_acc(Tail(s), Append(word, Head(s)), acc)

split(s) == split_acc(s, <<>>, <<>>)

\* sep.join(words)
RECURSIVE join(_, _)
join(words, sep) ==
    IF words = <<>> THEN <<>>
    ELSE IF Len(words) = 1 THEN words[1]
    ELSE words[1] \o sep \o join(Tail(words), sep)

\* ''.join(f(w) for w in words)
RECURSIVE concat_capitalized(_)
concat_capitalized(words) ==
    IF words = <<>> THEN <<>>
    ELSE capitalize(Head(words)) \o concat_capitalized(Tail(words))

\* s.rsplit(' ', 1)[0]: what precedes the last space, or all of s
RECURSIVE rsplit_head(_)
rsplit_head(s) ==
    IF \A i \in 1..Len(s) : s[i] # " " THEN s
    ELSE IF s[Len(s)] = " " THEN SubSeq(s, 1, Len(s) - 1)
    ELSE rsplit_head(SubSeq(s, 1, Len(s) - 1))

\* a padding of one fill character
ljust_one_fill(s, n, fill) == IF Len(s) >= n THEN s ELSE s \o <<fill>>

\* s.ljust(n, fill)
ljust(s, n, fill) ==
    IF Len(s) >= n THEN s ELSE s \o [i \in 1..(n - Len(s)) |-> fill]

\* s.replace(old, new) for single characters
replace_char(s, old, new) == [i \in 1..Len(s) |-> IF s[i] = old THEN new ELSE s[i]]

\* unicodedata.normalize('NFKD', text): ASCII is unchanged, a precomposed
\* letter decomposes into its base letter and a combining mark
RECURSIVE nfkd(_)
nfkd(s) ==
    IF s = <<>> THEN <<>>
    ELSE (IF Head(s) = "U+00E9" THEN <<"e", "U+0301">> ELSE <<Head(s)>>) \o nfkd(Tail(s))

\* re.sub("[^a-zA-Z0-9<PRESERVE_CHARS>]+", ' ', text): every maximal run of
\* characters outside the class becomes one space
RECURSIVE sub_disallowed(_, _, _)
sub_disallowed(s, allowed, inrun) ==
    IF s = <<>> THEN <<>>
    ELSE IF Head(s) \in allowed
         THEN <<Head(s)>> \o sub_disallowed(Tail(s), allowed, FALSE)
         ELSE (IF inrun THEN <<>> ELSE <<" ">>) \o sub_disallowed(Tail(s), allowed, TRUE)

\* s[:n], also for a negative n
slice_to(s, n) ==
    IF n >= 0 THEN SubSeq(s, 1, IF n < Len(s) THEN n ELSE Len(s))
    ELSE SubSeq(s, 1, IF Len(s) + n > 0 THEN Len(s) + n ELSE 0)

AsciiAlnum == LowerLetters \cup UpperLetters \cup Digits

\* text_processor.sanitize_filename
sanitize_filename(text, naming) ==
    LET t1 == nfkd(text)
        t2 == IF naming.REMOVE_SPECIAL_CHARS
              THEN sub_disallowed(t1, AsciiAlnum \cup naming.PRESERVE_CHARS, FALSE)
              ELSE t1
        t3 == join(split(t2), <<" ">>)
        t4 == IF Len(t3) > naming.TITLE_MAX_LENGTH
              THEN strip(rsplit_head(slice_to(t3, naming.TITLE_MAX_LENGTH)))
              ELSE t3
    IN  IF Len(t4) < naming.TITLE_MIN_LENGTH
        THEN ljust(t4, naming.TITLE_MIN_LENGTH, "_")
        ELSE t4

IndexError == <<"IndexError">>

\* text.replace('-', ' ').replace('_', ' ').replace('.', ' ').split()
tokenize(text) ==
    split(replace_char(replace_char(replace_char(text, "-", " "), "_", " "), ".", " "))

\* a formatter whose snake_case and kebab-case have each other's separator
format_text_by_style_swapped(text, naming) ==
    LET parts == tokenize(text)
    IN  CASE naming.STYLE = "snake_case" -> lower(join(parts, <<"-">>))
          [] naming.STYLE = "kebab-case" -> lower(join(parts, <<"_">>))
          [] naming.STYLE = "camelCase" ->
                IF parts = <<>> THEN IndexError
                ELSE lower(parts[1]) \o concat_capitalized(Tail(parts))
          [] naming.STYLE = "PascalCase" -> concat_capitalized(parts)
          [] OTHER -> join(parts, <<" ">>)

\* text_processor.format_text_by_style; IndexError stands for the exception
\* raised by parts[0] on an empty list
format_text_by_style(text, naming) ==
    LET parts == tokenize(text)
    IN  CASE naming.STYLE = "snake_case" -> lower(join(parts, <<"_">>))
          [] naming.STYLE = "kebab-case" -> lower(join(parts, <<"-">>))
          [] naming.STYLE = "camelCase" ->
                IF parts = <<>> THEN IndexError
                ELSE lower(parts[1]) \o concat_capitalized(Tail(parts))
          [] naming.STYLE = "PascalCase" -> concat_capitalized(parts)
          [] OTHER -> join(parts, <<" ">>)

\* os.path.splitext(name)[1] for a name without directory part: the suffix
\* from the last dot, provided a non-dot character precedes that dot
RECURSIVE last_dot(_)
last_dot(s) ==
    IF s = <<>> THEN 0 ELSE IF s[Len(s)] = "." THEN Len(s) ELSE last_dot(SubSeq(s, 1, Len(s) - 1))

splitext_ext(name) ==
    LET d == last_dot(name)
    IN  IF d > 0 /\ \E i \in 1..(d - 1) : name[i] # "."
        THEN SubSeq(name, d, Len(name))
        ELSE <<>>

\* the filter without the hidden-file policy
is_allowed_file_ignores_hidden(filename, file) ==
    lower(splitext_ext(filename)) \in file.ALLOWED_FILE_TYPES

\* FileProcessor.is_allowed_file
is_allowed_file(filename, file) ==
    IF filename # <<>> /\ filename[1] = "." /\ ~file.PROCESS_HIDDEN_FILES
    THEN FALSE
    ELSE lower(splitext_ext(filename)) \in file.ALLOWED_FILE_TYPES

---------------------------------------------------------------------------
(* The file system *)

\* the existence check that never finds the destination
path_exists_never(d, p) == FALSE

\* os.path.exists(new_path)
path_exists(d, p) == p \in DOMAIN d

\* a rename that leaves the source in place
os_rename_keeps_source(d, src, dst) ==
    [n \in DOMAIN d \cup {dst} |-> IF n = dst THEN d[src] ELSE d[n]]

\* os.rename(src, dst): dst now holds what src held, src is gone; an
\* existing dst is replaced
os_rename(d, src, dst) ==
    [n \in (DOMAIN d \ {src}) \cup {dst} |-> IF n = dst THEN d[src] ELSE d[n]]

\* a copy that writes nothing
copy2_writes_nothing(b, name, content) == b

\* shutil.copy2(file_path, backup_path): an existing target is overwritten
copy2(b, name, content) ==
    [n \in DOMAIN b \cup {name} |-> IF n = name THEN content ELSE b[n]]

EmptyDir == [n \in {} |-> None]

---------------------------------------------------------------------------
(* Configurations and inputs of the pipeline *)

Styles == {"snake_case", "kebab-case", "camelCase", "PascalCase", "space"}

DefaultNaming(style) ==
    [STYLE |-> style, TITLE_MAX_LENGTH |-> 200, TITLE_MIN_LENGTH |-> 10,
     REMOVE_SPECIAL_CHARS |-> TRUE, PRESERVE_CHARS |-> {"-", "_", "."}]

PipelineStyles == {"kebab-case", "camelCase"}

PipelineSettings ==
    [file : [ALLOWED_FILE_TYPES : {{<<".", "p", "d", "f">>}},
             PROCESS_HIDDEN_FILES : BOOLEAN,
             BACKUP_ENABLED : BOOLEAN],
     api : [GEMINI_API_KEY : {<<>>, <<"k">>},
            MAX_RETRIES : 0..MaxRetriesCfg,
            RETRY_DELAY : {1}],
     naming : {DefaultNaming(st) : st \in PipelineStyles}]

FileNames ==
    { <<"a", ".", "p", "d", "f">>,
      <<"B", ".", "P", "D", "F">>,
      <<".", "x", ".", "p", "d", "f">>,
      <<"b", ".", "p", "d", "f">>,
      <<"t", ".", "t", "x", "t">> }

\* "smith-2023-widgets"
SmithTitle ==
    <<"s", "m", "i", "t", "h", "-", "2", "0", "2", "3", "-",
      "w", "i", "d", "g", "e", "t", "s">>

\* the texts a 200 response can carry as its first candidate
RawTitles == { <<"b">>, <<"!">>, SmithTitle }

\* all orders in which os.listdir can return the entries
Orders(S) ==
    {o \in [1..Cardinality(S) -> S] : \A i, j \in DOMAIN o : i # j => o[i] # o[j]}

---------------------------------------------------------------------------
(* The retry wrappers *)

Returns(v) == [kind |-> "return", value |-> v]
Raises(e) == [kind |-> "raise", value |-> e]

\* the local state of a wrapper call: retries, current_delay, and what the
\* call has done so far (invocations of func, the time.sleep durations)
NewWrapper(delay) ==
    [status |-> "running", value |-> None, exc |-> "", retries |-> 0, current_delay |-> delay,
     invocations |-> 0, sleeps |-> <<>>]

\* a wrapper that catches every exception
api_error_caught_any(e) == TRUE

\* except requests.RequestException (title_generator.py line 25)
api_error_caught(e) == e = "RequestException"

\* a wrapper that gives up silently: after the last failure it returns None
retry_on_api_error_swallows(w, out, api) ==
    LET called == [w EXCEPT !.invocations = @ + 1]
    IN  IF out.kind = "return"
        THEN [called EXCEPT !.status = "returned", !.value = out.value]
        ELSE IF out.value = "RequestException"
             THEN IF w.retries + 1 = api.MAX_RETRIES
                  THEN [called EXCEPT !.retries = @ + 1, !.status = "returned"]
                  ELSE [called EXCEPT !.retries = @ + 1,
                                      !.sleeps = Append(@, api.RETRY_DELAY)]
             ELSE [called EXCEPT !.status = "raised", !.exc = out.value]

\* retry_on_api_error.wrapper: the while condition holds, func is invoked
\* and ends with out
retry_on_api_error(w, out, api) ==
    LET called == [w EXCEPT !.invocations = @ + 1]
    IN  IF out.kind = "return"
        THEN [called EXCEPT !.status = "returned", !.value = out.value]
        ELSE IF api_error_caught(out.value)
             THEN IF w.retries + 1 = api.MAX_RETRIES
                  THEN [called EXCEPT !.retries = @ + 1,
                                      !.status = "raised", !.exc = out.value]
                  ELSE [called EXCEPT !.retries = @ + 1,
                                      !.sleeps = Append(@, api.RETRY_DELAY)]
             ELSE [called EXCEPT !.status = "raised", !.exc = out.value]

\* retry_on_api_error.wrapper: the while condition fails, the wrapper falls
\* off its end
retry_on_api_error_exit(w) == [w EXCEPT !.status = "returned", !.value = None]

\* the comparison off by one
retries_exceeded_early(retries, max_retries) == retries >= max_retries

\* if retries > max_retries (utils.py line 40)
retries_exceeded(retries, max_retries) == retries > max_retries

\* a delay that never grows
next_delay_fixed(current_delay, backoff) == current_delay

\* current_delay *= backoff (utils.py line 49)
next_delay(current_delay, backoff) == current_delay * backoff

\* retry_on_exception.wrapper: func is invoked and ends with out
retry_on_exception(w, out, exceptions, max_retries, backoff) ==
    LET called == [w EXCEPT !.invocations = @ + 1]
    IN  IF out.kind = "return"
        THEN [called EXCEPT !.status = "returned", !.value = out.value]
        ELSE IF out.value \in exceptions
             THEN IF retries_exceeded(w.retries + 1, max_retries)
                  THEN [called EXCEPT !.retries = @ + 1,
                                      !.status = "raised", !.exc = out.value]
                  ELSE [called EXCEPT !.retries = @ + 1,
                                      !.sleeps = Append(@, w.current_delay),
                                      !.current_delay = next_delay(@, backoff)]
             ELSE [called EXCEPT !.status = "raised", !.exc = out.value]

---------------------------------------------------------------------------
(* process_directory and rename_file (src/src/core/processor.py) *)

NoCall == [file_path |-> None]

NoRetry == [wrapper |-> None]

\* the frame of a rename_file call that has just been entered
NewCall(f) ==
    [file_path |-> f, pre_dir |-> dir, pre_bak |-> bak,
     pre_bak_exists |-> backup_dir_exists,
     backup |-> "not_run", backup_path |-> None, text |-> None,
     api_last |-> "none", api_text |-> None,
     http |-> 0, w |-> NewWrapper(0), new_path |-> None, trace |-> <<>>]

\* main() has not returned
NotReturned == [exit_code |-> 0 - 1, raised_in |-> "none"]

Init ==
    /\ settings \in PipelineSettings
    /\ directory_exists \in BOOLEAN
    /\ \E S \in SUBSET FileNames :
          /\ Cardinality(S) <= MaxEntries
          /\ directory_exists \/ S = {}
          /\ dir = [n \in S |-> n]
    /\ dir0 = dir
    /\ backup_dir_exists = FALSE
    /\ bak = EmptyDir
    /\ pc \in {"main", "start"}
    /\ all_files = <<>>
    /\ idx = 0
    /\ renamed_files = EmptyDir
    /\ calls = <<>>
    /\ last = NoCall
    /\ cur = NoCall
    /\ main_return = NotReturned
    /\ rx = NoRetry

\* all_files = [f for f in os.listdir(directory_path) if self.is_allowed_file(f)]
FilteredListing(listing, file) ==
    SelectSeq(listing, LAMBDA f : is_allowed_file(f, file))

\* a loop that ends with the first file that was not renamed
AfterCall_stops_on_failure(res, i, n) ==
    IF res = None \/ i + 1 > n THEN "done" ELSE "rename_file"

\* where the for loop of process_directory stands after the call for
\* all_files[i] has returned res
AfterCall(res, i, n) == IF i + 1 > n THEN "done" ELSE "rename_file"

\* rename_file returns res to the loop of process_directory
Return(res, why, frame) ==
    /\ last' = [frame EXCEPT !.trace = Append(@, why)] @@
                [result |-> res, why |-> why,
                 post_dir |-> dir', post_bak |-> bak',
                 post_bak_exists |-> backup_dir_exists']
    /\ renamed_files' =
          IF res # None
          THEN [p \in DOMAIN renamed_files \cup {frame.file_path} |->
                   IF p = frame.file_path THEN res ELSE renamed_files[p]]
          ELSE renamed_files
    /\ idx' = idx + 1
    /\ pc' = AfterCall(res, idx, Len(all_files))
    /\ cur' = NoCall

\* process_directory up to the for loop
process_directory ==
    /\ pc = "start"
    /\ IF ~directory_exists
       THEN /\ pc' = "done"
            /\ UNCHANGED <<all_files, idx>>
       ELSE \E listing \in Orders(DOMAIN dir) :
               /\ all_files' = FilteredListing(listing, settings.file)
               /\ IF all_files' = <<>>
                  THEN pc' = "done" /\ idx' = idx
                  ELSE pc' = "rename_file" /\ idx' = 1
    /\ UNCHANGED <<settings, directory_exists, dir0, dir, backup_dir_exists, bak,
                   renamed_files, calls, last, cur, rx, main_return>>

BackupOutcomes == {"ok", "makedirs_failed", "copy_failed"}

\* backup_path = os.path.join(backup_dir, os.path.basename(file_path)): the
\* name of the copy inside the backup directory
backup_filename(file_path) == file_path

\* a create_backup that lets its failure escape
create_backup_result_raises(out, backup_path) ==
    IF out = "ok" THEN Returns(backup_path) ELSE Raises("OSError")

\* what FileProcessor.create_backup hands to rename_file when makedirs and
\* copy2 end with out: the except clause of lines 65-67 turns every failure
\* into None
create_backup_result(out, backup_path) ==
    IF out = "ok" THEN Returns(backup_path) ELSE Returns(None)

\* rename_file entered for all_files[idx]: create_backup (lines 43-67, 81-87)
create_backup ==
    /\ pc = "rename_file"
    /\ calls' = Append(calls, all_files[idx])
    /\ UNCHANGED <<settings, directory_exists, dir0, dir, all_files, rx, main_return>>
    /\ LET f == all_files[idx]
           frame == NewCall(f)
       IN  IF ~settings.file.BACKUP_ENABLED
           THEN /\ cur' = [frame EXCEPT !.backup = "disabled"]
                /\ pc' = "extract"
                /\ last' = NoCall
                /\ UNCHANGED <<backup_dir_exists, bak, idx, renamed_files>>
           ELSE \E out \in BackupOutcomes :
                   LET res == create_backup_result(out, backup_filename(f))
                       fr == [frame EXCEPT !.backup = out, !.trace = <<"backup">>,
                                           !.backup_path = IF res.kind = "return" THEN res.value
                                                           ELSE None]
                   IN  /\ backup_dir_exists' = (backup_dir_exists \/ out # "makedirs_failed")
                       /\ bak' = IF out = "ok" THEN copy2(bak, backup_filename(f), dir[f])
                                 ELSE bak
                       /\ IF res.kind = "raise"
                          THEN Return(None, "exception", fr)
                          ELSE /\ cur' = fr
                               /\ pc' = "extract"
                               /\ last' = NoCall
                               /\ UNCHANGED <<idx, renamed_files>>

\* what OCRService.extract_text_from_first_page returns: None, '' or a text
ExtractedTexts == {None, <<>>, <<"t">>}

\* rename_file lines 89-93
extract_text ==
    /\ pc = "extract"
    /\ UNCHANGED <<settings, directory_exists, dir0, dir, backup_dir_exists, bak,
                   all_files, calls, rx, main_return>>
    /\ \E text \in ExtractedTexts :
          LET frame == [cur EXCEPT !.text = text, !.trace = Append(@, "extract")]
          IN  IF text \in {None, <<>>}
              THEN Return(None, "no_text", frame)
              ELSE /\ cur' = [frame EXCEPT !.trace = Append(@, "generate_title")]
                   /\ pc' = "generate_title"
                   /\ UNCHANGED <<idx, renamed_files, last>>

\* what requests.post can do: raise a RequestException, answer with a
\* status other than 200, or answer 200 with a body
Responses ==
    {[kind |-> "request_exception"], [kind |-> "status", code |-> 500],
     [kind |-> "body", shape |-> "no_candidates"],
     [kind |-> "body", shape |-> "malformed_candidate"]}
    \cup {[kind |-> "body", shape |-> "title", text |-> t] : t \in RawTitles}

\* TitleGenerator._parse_response
parse_response(resp, naming) ==
    IF resp.shape = "title" THEN sanitize_filename(strip(resp.text), naming)
    ELSE None

\* the body of TitleGenerator.generate_title once requests.post has ended
\* with resp (lines 107-124)
generate_title_body(resp, naming) ==
    IF resp.kind = "request_exception" THEN Raises("RequestException")
    ELSE IF resp.kind = "status" /\ resp.code # 200 THEN Raises("RequestException")
    ELSE LET title == parse_response(resp, naming)
         IN  IF title \notin {None, <<>>} THEN Returns(title) ELSE Returns(None)

\* the call of the decorated generate_title has ended in wrapper state w
AfterGenerateTitle(frame, w) ==
    LET fr == [frame EXCEPT !.w = w]
    IN  IF w.status = "running"
        THEN /\ cur' = fr
             /\ UNCHANGED <<pc, idx, renamed_files, last>>
        ELSE IF w.status = "raised"
        THEN Return(None, "exception", fr)
        ELSE IF w.value \in {None, <<>>}
        THEN Return(None, "no_title", fr)
        ELSE /\ cur' = fr
             /\ pc' = "rename"
             /\ UNCHANGED <<idx, renamed_files, last>>

\* rename_file line 96: one invocation of generate_title by its wrapper
generate_title ==
    /\ pc = "generate_title"
    /\ cur.w.retries < settings.api.MAX_RETRIES
    /\ UNCHANGED <<settings, directory_exists, dir0, dir, backup_dir_exists, bak,
                   all_files, calls, rx, main_return>>
    /\ LET frame == cur
       IN  IF settings.api.GEMINI_API_KEY = <<>>
           THEN AfterGenerateTitle(frame,
                    retry_on_api_error(cur.w, Raises("ValueError"), settings.api))
           ELSE \E resp \in Responses :
                   AfterGenerateTitle(
                       [frame EXCEPT !.http = @ + 1,
                                     !.api_last = IF resp.kind = "body" THEN resp.shape
                                                  ELSE resp.kind,
                                     !.api_text = IF resp.kind = "body"
                                                     /\ resp.shape = "title"
                                                  THEN resp.text ELSE None],
                       retry_on_api_error(cur.w, generate_title_body(resp, settings.naming),
                                          settings.api))

\* rename_file line 96 when the wrapper's loop is not entered
generate_title_not_invoked ==
    /\ pc = "generate_title"
    /\ ~(cur.w.retries < settings.api.MAX_RETRIES)
    /\ UNCHANGED <<settings, directory_exists, dir0, dir, backup_dir_exists, bak,
                   all_files, calls, rx, main_return>>
    /\ AfterGenerateTitle(cur, retry_on_api_error_exit(cur.w))

\* rename_file lines 101-116
rename ==
    /\ pc = "rename"
    /\ UNCHANGED <<settings, directory_exists, dir0, backup_dir_exists, bak,
                   all_files, calls, rx, main_return>>
    /\ LET f == cur.file_path
           formatted == format_text_by_style(cur.w.value, settings.naming)
           new_path == formatted \o splitext_ext(f)
           fr1 == [cur EXCEPT !.trace = Append(@, "format")]
           fr2 == [fr1 EXCEPT !.new_path = new_path, !.trace = Append(@, "exists")]
           fr3 == [fr2 EXCEPT !.trace = Append(@, "rename")]
       IN  IF formatted = IndexError
           THEN dir' = dir /\ Return(None, "exception", fr1)
           ELSE IF path_exists(dir, new_path)
           THEN dir' = dir /\ Return(None, "exists", fr2)
           ELSE \E ok \in BOOLEAN :
                   IF ok
                   THEN dir' = os_rename(dir, f, new_path) /\ Return(new_path, "renamed", fr3)
                   ELSE dir' = dir /\ Return(None, "exception", fr3)

\* parse_arguments: the choices of --style are built from
\* settings.NamingStyle (line 44), and the Settings object has no attribute
\* of that name
parse_arguments == Raises("AttributeError")

\* main(): parse_arguments and update_settings, then process_files; an
\* exception of any of them is caught at lines 142-144, which return 1
main ==
    /\ pc = "main"
    /\ IF parse_arguments.kind = "raise"
       THEN /\ main_return' = [exit_code |-> 1, raised_in |-> "parse_arguments"]
            /\ pc' = "exit"
       ELSE /\ main_return' = main_return
            /\ pc' = "process_files"
    /\ UNCHANGED <<settings, directory_exists, dir0, dir, backup_dir_exists, bak,
                   all_files, idx, renamed_files, calls, last, cur, rx>>

Next ==
    \/ main
    \/ process_directory
    \/ create_backup
    \/ extract_text
    \/ generate_title
    \/ generate_title_not_invoked
    \/ rename

Spec == Init /\ [][Next]_vars

---------------------------------------------------------------------------
(* The retry wrappers around a function that fails a given number of times: *)
(* first retry_on_exception(exceptions=(requests.RequestException,)), then  *)
(* retry_on_api_error, around the same function                             *)

Success == <<"ok">>

\* what the wrapped function does on its n-th invocation
func(n) ==
    IF rx.always \/ n <= rx.fail_first
    THEN Raises(IF rx.listed THEN "RequestException" ELSE "ValueError")
    ELSE Returns(Success)

RetrySettings(max_retries, delay) ==
    [file |-> [ALLOWED_FILE_TYPES |-> {<<".", "p", "d", "f">>},
               PROCESS_HIDDEN_FILES |-> FALSE, BACKUP_ENABLED |-> TRUE],
     api |-> [GEMINI_API_KEY |-> <<"k">>, MAX_RETRIES |-> max_retries,
              RETRY_DELAY |-> delay],
     naming |-> DefaultNaming("kebab-case")]

InitRetry ==
    /\ \E m \in 0..MaxRetriesArg, d \in 1..MaxDelay, b \in 1..MaxBackoff,
          k \in 0..MaxFailFirst, always \in BOOLEAN, listed \in BOOLEAN :
          /\ settings = RetrySettings(m, d)
          /\ rx = [wrapper |-> "retry_on_exception",
                   exceptions |-> {"RequestException"},
                   max_retries |-> m, delay |-> d, backoff |-> b,
                   fail_first |-> k, always |-> always, listed |-> listed,
                   w |-> NewWrapper(d), first |-> NewWrapper(d)]
    /\ directory_exists = FALSE
    /\ dir = EmptyDir
    /\ dir0 = EmptyDir
    /\ backup_dir_exists = FALSE
    /\ bak = EmptyDir
    /\ pc = "retry"
    /\ all_files = <<>>
    /\ idx = 0
    /\ renamed_files = EmptyDir
    /\ calls = <<>>
    /\ last = NoCall
    /\ cur = NoCall
    /\ main_return = NotReturned

PipelineVars == <<settings, directory_exists, dir0, dir, backup_dir_exists, bak,
                  pc, all_files, idx, renamed_files, calls, last, cur, main_return>>

\* the wrapper under test has ended in state w: go on to the next wrapper
AfterWrapper(w) ==
    IF w.status = "running"
    THEN rx' = [rx EXCEPT !.w = w]
    ELSE IF rx.wrapper = "retry_on_exception"
    THEN rx' = [rx EXCEPT !.wrapper = "retry_on_api_error", !.first = w,
                          !.w = NewWrapper(0)]
    ELSE rx' = [rx EXCEPT !.wrapper = "finished", !.w = w]

retry_on_exception_call ==
    /\ pc = "retry"
    /\ rx.wrapper = "retry_on_exception"
    /\ AfterWrapper(retry_on_exception(rx.w, func(rx.w.invocations + 1),
                                       rx.exceptions, rx.max_retries, rx.backoff))
    /\ UNCHANGED PipelineVars

retry_on_api_error_call ==
    /\ pc = "retry"
    /\ rx.wrapper = "retry_on_api_error"
    /\ rx.w.retries < settings.api.MAX_RETRIES
    /\ AfterWrapper(retry_on_api_error(rx.w, func(rx.w.invocations + 1), settings.api))
    /\ UNCHANGED PipelineVars

retry_on_api_error_not_invoked ==
    /\ pc = "retry"
    /\ rx.wrapper = "retry_on_api_error"
    /\ ~(rx.w.retries < settings.api.MAX_RETRIES)
    /\ AfterWrapper(retry_on_api_error_exit(rx.w))
    /\ UNCHANGED PipelineVars

NextRetry ==
    \/ retry_on_exception_call
    \/ retry_on_api_error_call
    \/ retry_on_api_error_not_invoked

SpecRetry == InitRetry /\ [][NextRetry]_vars

---------------------------------------------------------------------------
(* Calls of extract_text_from_page, sanitize_filename, format_text_by_style *)
(* and get_naming_template on the inputs below                              *)

TextChars == {"a", "B", " ", "_", "-", "U+00E9"}

\* the strings over TextChars of at most MaxTextLen characters
Texts == UNION {[1..k -> TextChars] : k \in 0..MaxTextLen}

\* what pytesseract.image_to_string can do
OcrOutcomes == {Raises("TesseractError"), Returns(<<>>), Returns(<<"a", " ">>)}

\* a threshold that also sends a text of exactly the minimum length to OCR
text_too_short_or_equal(text, min_text_length) == Len(text) <= min_text_length

\* len(text) < settings.ocr.MIN_TEXT_LENGTH (ocr.py line 68)
text_too_short(text, min_text_length) == Len(text) < min_text_length

\* OCRService.extract_text_from_image: a failure of OCR yields ''
extract_text_from_image(ocr) ==
    IF ocr.kind = "raise" THEN <<>> ELSE strip(ocr.value)

\* OCRService.extract_text_from_page on a page whose get_text() is
\* page_text: direct is what extract_text_from_pdf_page returned, fallback
\* tells whether the OCR branch (lines 69-72) was taken
extract_text_from_page(page_text, pixmap_ok, ocr, min_text_length) ==
    LET text == strip(page_text)
    IN  IF text_too_short(text, min_text_length)
        THEN IF pixmap_ok
             THEN [kind |-> "return", value |-> extract_text_from_image(ocr),
                   direct |-> text, fallback |-> TRUE, image_to_string |-> 1]
             ELSE [kind |-> "raise", value |-> None,
                   direct |-> text, fallback |-> TRUE, image_to_string |-> 0]
        ELSE [kind |-> "return", value |-> text,
              direct |-> text, fallback |-> FALSE, image_to_string |-> 0]

OcrCalls ==
    [op : {"extract_text_from_page"}, page_text : Texts, pixmap_ok : BOOLEAN,
     ocr : OcrOutcomes, MIN_TEXT_LENGTH : 0..MaxMinTextLength, results : {<<>>}]

\* the naming settings sanitize_filename reads
SanitizeSettings ==
    [STYLE : {"kebab-case"},
     TITLE_MAX_LENGTH : (0 - 1)..MaxTitleMaxLength,
     TITLE_MIN_LENGTH : 0..MaxTitleMinLength,
     REMOVE_SPECIAL_CHARS : BOOLEAN,
     PRESERVE_CHARS : {{"-", "_", "."}, {"-"}}]

SanitizeCalls ==
    [op : {"sanitize_filename"}, text : Texts, naming : SanitizeSettings,
     results : {<<>>}]

\* the argument of the next call: the text, then the result of the call
\* before
NextArgument == IF rx.results = <<>> THEN rx.text ELSE rx.results[Len(rx.results)]

FormatCalls ==
    [op : {"format_text_by_style"}, text : Texts,
     naming : {DefaultNaming(st) : st \in Styles}, results : {<<>>}]

\* NamingConfig.TEMPLATES as __post_init__ fills it
TEMPLATES ==
    [n \in {"research", "document", "report", "custom"} |->
        CASE n = "research" -> "{authors}-{year}-{title}"
          [] n = "document" -> "{date}-{title}"
          [] n = "report" -> "{category}-{date}-{title}"
          [] OTHER -> "{title}"]

\* a template_name argument: None or a string
NoTemplateName == [is_none |-> TRUE, str |-> ""]
TemplateName(str) == [is_none |-> FALSE, str |-> str]

\* a lookup that falls back to the template of DEFAULT_TEMPLATE
get_naming_template_default_fallback(template_name, DEFAULT_TEMPLATE) ==
    LET name == IF template_name.is_none \/ template_name.str = ""
                THEN DEFAULT_TEMPLATE ELSE template_name.str
    IN  IF name \in DOMAIN TEMPLATES THEN TEMPLATES[name]
        ELSE IF DEFAULT_TEMPLATE \in DOMAIN TEMPLATES THEN TEMPLATES[DEFAULT_TEMPLATE]
        ELSE TEMPLATES["custom"]

\* Settings.get_naming_template:
\*   template_name = template_name or self.naming.DEFAULT_TEMPLATE
\*   return TEMPLATES.get(template_name, TEMPLATES["custom"])
get_naming_template(template_name, DEFAULT_TEMPLATE) ==
    LET name == IF template_name.is_none \/ template_name.str = ""
                THEN DEFAULT_TEMPLATE ELSE template_name.str
    IN  IF name \in DOMAIN TEMPLATES THEN TEMPLATES[name] ELSE TEMPLATES["custom"]

\* the names a caller passes and the values DEFAULT_TEMPLATE is given in the
\* environment: registered ones and "thesis", which is not registered
TemplateCalls ==
    [op : {"get_naming_template"},
     template_name : {NoTemplateName} \cup
                     {TemplateName(n) : n \in DOMAIN TEMPLATES \cup {"", "thesis"}},
     DEFAULT_TEMPLATE : {"research", "document", "thesis"},
     results : {<<>>}]

\* utils.sanitize_filename (the sanitizer of pdf_smart_rename.py)

\* invalid_chars = '<>:"/\|?*'
InvalidChars == {"<", ">", ":", "\"", "/", "\\", "|", "?", "*"}

\* the characters c with '֐' <= c <= '׿' among those of the inputs
HebrewChars == {"U+05D0"}

\* Config.TITLE_MAX_LENGTH
TITLE_MAX_LENGTH == 200

\* s.split(sep) for a one-character sep: the pieces between the separators,
\* empty ones included
RECURSIVE split_on_acc(_, _, _, _)
split_on_acc(s, sep, word, acc) ==
    IF s = <<>> THEN Append(acc, word)
    ELSE IF Head(s) = sep
         THEN split_on_acc(Tail(s), sep, <<>>, Append(acc, word))
         ELSE split_on_acc(Tail(s), sep, Append(word, Head(s)), acc)

split_on(s, sep) == split_on_acc(s, sep, <<>>, <<>>)

\* words.reverse()
reverse(words) == [i \in 1..Len(words) |-> words[Len(words) + 1 - i]]

\* s.strip(ch)
RECURSIVE strip_char(_, _)
strip_char(s, ch) ==
    IF s # <<>> /\ Head(s) = ch THEN strip_char(Tail(s), ch)
    ELSE IF s # <<>> /\ s[Len(s)] = ch THEN strip_char(SubSeq(s, 1, Len(s) - 1), ch)
    ELSE s

\* a max_length argument: None or an integer
NoMaxLength == [is_none |-> TRUE, n |-> 0]
MaxLength(n) == [is_none |-> FALSE, n |-> n]

\* utils.sanitize_filename(filename, max_length)
utils_sanitize_filename(filename, max_length) ==
    LET limit == IF max_length.is_none THEN TITLE_MAX_LENGTH ELSE max_length.n
        replaced == [i \in 1..Len(filename) |->
                        IF filename[i] \in InvalidChars THEN "_" ELSE filename[i]]
        joined == join(split(replaced), <<"_">>)
        directed == IF \E i \in 1..Len(joined) : joined[i] \in HebrewChars
                    THEN join(reverse(split_on(joined, "_")), <<"_">>)
                    ELSE joined
        words == split_on(slice_to(directed, limit), "_")
        truncated == IF Len(directed) > limit
                     THEN join(SubSeq(words, 1, Len(words) - 1), <<"_">>)
                     ELSE directed
    IN  strip_char(truncated, "_")

\* the file names given to utils.sanitize_filename: the strings over
\* LegacyChars of at most MaxTextLen characters
LegacyChars == {"a", " ", "_", "/", "U+05D0"}
LegacyTexts == UNION {[1..k -> LegacyChars] : k \in 0..MaxTextLen}

LegacySanitizeCalls ==
    [op : {"utils.sanitize_filename"}, text : LegacyTexts,
     max_length : {NoMaxLength} \cup {MaxLength(n) : n \in (0 - 1)..MaxTitleMaxLength},
     results : {<<>>}]

InitCalls ==
    /\ rx \in OcrCalls \cup SanitizeCalls \cup FormatCalls \cup TemplateCalls
                \cup LegacySanitizeCalls
    /\ settings = RetrySettings(1, 1)
    /\ directory_exists = FALSE
    /\ dir = EmptyDir
    /\ dir0 = EmptyDir
    /\ backup_dir_exists = FALSE
    /\ bak = EmptyDir
    /\ pc = "call"
    /\ all_files = <<>>
    /\ idx = 0
    /\ renamed_files = EmptyDir
    /\ calls = <<>>
    /\ last = NoCall
    /\ cur = NoCall
    /\ main_return = NotReturned

extract_text_from_page_call ==
    /\ pc = "call"
    /\ rx.op = "extract_text_from_page"
    /\ rx.results = <<>>
    /\ rx' = [rx EXCEPT !.results =
                 <<extract_text_from_page(rx.page_text, rx.pixmap_ok, rx.ocr,
                                          rx.MIN_TEXT_LENGTH)>>]
    /\ UNCHANGED PipelineVars

\* sanitize_filename called on the text, then on its own result
sanitize_filename_call ==
    /\ pc = "call"
    /\ rx.op = "sanitize_filename"
    /\ Len(rx.results) < 2
    /\ rx' = [rx EXCEPT !.results = Append(@, sanitize_filename(NextArgument, rx.naming))]
    /\ UNCHANGED PipelineVars

\* format_text_by_style called on the text, then on its own result
format_text_by_style_call ==
    /\ pc = "call"
    /\ rx.op = "format_text_by_style"
    /\ Len(rx.results) < 2
    /\ NextArgument # IndexError
    /\ rx' = [rx EXCEPT !.results =
                 Append(@, format_text_by_style(NextArgument, rx.naming))]
    /\ UNCHANGED PipelineVars

get_naming_template_call ==
    /\ pc = "call"
    /\ rx.op = "get_naming_template"
    /\ rx.results = <<>>
    /\ rx' = [rx EXCEPT !.results =
                 <<get_naming_template(rx.template_name, rx.DEFAULT_TEMPLATE)>>]
    /\ UNCHANGED PipelineVars

\* utils.sanitize_filename called on the text, then on its own result
utils_sanitize_filename_call ==
    /\ pc = "call"
    /\ rx.op = "utils.sanitize_filename"
    /\ Len(rx.results) < 2
    /\ rx' = [rx EXCEPT !.results =
                 Append(@, utils_sanitize_filename(NextArgument, rx.max_length))]
    /\ UNCHANGED PipelineVars

NextCalls ==
    \/ get_naming_template_call
    \/ extract_text_from_page_call
    \/ sanitize_filename_call
    \/ format_text_by_style_call
    \/ utils_sanitize_filename_call

SpecCalls == InitCalls /\ [][NextCalls]_vars

---------------------------------------------------------------------------
(* Properties of process_directory and rename_file *)

\* a rename_file call has just returned to the loop
Finished == last.file_path # None

\* the entries of the listing that the filter accepts: not hidden unless
\* PROCESS_HIDDEN_FILES, and lower-cased extension in ALLOWED_FILE_TYPES
Accepted(n) ==
    /\ (n[1] # "." \/ settings.file.PROCESS_HIDDEN_FILES)
    /\ lower(splitext_ext(n)) \in settings.file.ALLOWED_FILE_TYPES

\* C1: the directory changes only by a rename of one entry to a name that
\* did not exist at that moment; every other entry keeps its name and
\* content, so no file of the directory is ever overwritten or replaced.
C1_RenameOnlyToFreePath ==
    [][dir' # dir =>
          \E src \in DOMAIN dir :
             \E dst \in DOMAIN dir' \ DOMAIN dir :
                /\ DOMAIN dir' = (DOMAIN dir \ {src}) \cup {dst}
                /\ dir'[dst] = dir[src]
                /\ \A n \in DOMAIN dir \ {src} : dir'[n] = dir[n]]_vars

\* a second rename of the same run has been executed, into a directory that
\* holds the file created by the first
C1_Witness ==
    /\ Finished
    /\ last.why = "renamed"
    /\ Cardinality(DOMAIN renamed_files) >= 2
    /\ \E n \in DOMAIN last.pre_dir : n \notin DOMAIN dir0

\* C2: when rename_file returns None the source is still at its path with
\* its content; when it returns a path p the content is at p and the source
\* path is gone.
C2_SourceOrDestination ==
    Finished =>
       LET f == last.file_path
       IN  /\ f \in DOMAIN last.pre_dir
           /\ IF last.result = None
              THEN /\ f \in DOMAIN last.post_dir
                   /\ last.post_dir[f] = last.pre_dir[f]
              ELSE /\ last.result \in DOMAIN last.post_dir
                   /\ last.post_dir[last.result] = last.pre_dir[f]
                   /\ f \notin DOMAIN last.post_dir

\* os.rename itself failed, and the call returned None
C2_Witness ==
    /\ Finished
    /\ last.result = None
    /\ Len(last.trace) >= 2
    /\ last.trace[Len(last.trace) - 1] = "rename"
    /\ last.file_path \in DOMAIN dir

\* C3: a file that is not renamed never stops the loop: the calls made so
\* far are a prefix of the listing, a failed call leaves the directory as it
\* found it and hands control to the next file, and at the end every listed
\* file has been passed to rename_file and the mapping holds the successes.
C3_FailureDoesNotStopLoop ==
    /\ pc \in {"rename_file", "done"} /\ directory_exists =>
          calls = SubSeq(all_files, 1, Len(calls))
    /\ pc = "done" /\ directory_exists => calls = all_files
    /\ Finished =>
          /\ pc = (IF Len(calls) < Len(all_files) THEN "rename_file" ELSE "done")
          /\ last.result = None =>
                /\ last.post_dir = last.pre_dir
                /\ last.file_path \notin DOMAIN renamed_files
          /\ last.result # None =>
                /\ last.file_path \in DOMAIN renamed_files
                /\ renamed_files[last.file_path] = last.result
    /\ \A f \in DOMAIN renamed_files : \E i \in 1..Len(calls) : calls[i] = f

\* the first file failed, and a later file was still renamed
C3_Witness ==
    /\ pc = "done"
    /\ Len(calls) >= 2
    /\ calls[1] \notin DOMAIN renamed_files
    /\ Finished
    /\ last.file_path = calls[Len(calls)]
    /\ last.why = "renamed"

\* C4: rename_file is called exactly once for each accepted entry of the
\* directory as it was listed, never for a rejected entry and never for a
\* file that a rename of this run created.
C4_ExactlyTheAcceptedEntries ==
    /\ \A i \in 1..Len(calls) :
          /\ calls[i] \in DOMAIN dir0
          /\ Accepted(calls[i])
          /\ \A j \in 1..Len(calls) : i # j => calls[i] # calls[j]
    /\ pc = "done" /\ directory_exists =>
          /\ {calls[i] : i \in 1..Len(calls)} = {n \in DOMAIN dir0 : Accepted(n)}
          /\ Len(calls) = Cardinality({n \in DOMAIN dir0 : Accepted(n)})

\* a run over one accepted and one rejected entry has ended, and its rename
\* created a name the filter would accept
C4_Witness ==
    /\ pc = "done"
    /\ Len(calls) >= 1
    /\ \E n \in DOMAIN dir0 : ~Accepted(n)
    /\ \E n \in DOMAIN dir \ DOMAIN dir0 : Accepted(n)

\* the computed destination of the call that just returned existed when the
\* call began
Collision ==
    /\ Finished
    /\ last.new_path # None
    /\ last.new_path \in DOMAIN last.pre_dir

\* C5 as stated: on a collision the call returns None and the file system,
\* backup directory included, is exactly as it was before the call.
C5_CollisionIsNoOp ==
    Collision =>
       /\ last.result = None
       /\ last.post_dir = last.pre_dir
       /\ last.post_bak = last.pre_bak
       /\ last.post_bak_exists = last.pre_bak_exists

\* C5 amended: on a collision the call returns None and the directory is
\* exactly as it was; the backup directory is untouched when backup is
\* disabled, and otherwise changes at most by the backup of the source that
\* the call makes before anything else.
C5_CollisionLeavesDirectory ==
    Collision =>
       /\ last.result = None
       /\ last.post_dir = last.pre_dir
       /\ ~settings.file.BACKUP_ENABLED =>
             /\ last.post_bak = last.pre_bak
             /\ last.post_bak_exists = last.pre_bak_exists
       /\ settings.file.BACKUP_ENABLED =>
             /\ last.post_bak \in
                   {last.pre_bak,
                    copy2(last.pre_bak, last.file_path, last.pre_dir[last.file_path])}
             /\ last.pre_bak_exists => last.post_bak_exists

\* a collision after the backup of the source had been written
C5_Witness ==
    /\ Collision
    /\ last.backup = "ok"
    /\ last.post_bak # last.pre_bak
    /\ last.new_path # last.file_path

---------------------------------------------------------------------------
(* Properties of the retry wrappers *)

RECURSIVE Pow(_, _)
Pow(b, n) == IF n = 0 THEN 1 ELSE b * Pow(b, n - 1)

\* the wrapped function raises a retried exception on exactly its first
\* fail_first calls, fewer than max_retries, and then succeeds
FailsThenSucceeds ==
    /\ ~rx.always
    /\ rx.fail_first < rx.max_retries
    /\ rx.listed \/ rx.fail_first = 0

\* C6: around a function that fails k < max_retries times and then
\* succeeds, each wrapper returns the success value after k+1 invocations and
\* k sleeps: delay, delay*backoff, ..., delay*backoff^(k-1) for
\* retry_on_exception, k times RETRY_DELAY for retry_on_api_error.
C6_RetryThenSuccess ==
    FailsThenSucceeds =>
       LET k == rx.fail_first
       IN  /\ rx.wrapper # "retry_on_exception" =>
                 /\ rx.first.status = "returned"
                 /\ rx.first.value = Success
                 /\ rx.first.invocations = k + 1
                 /\ Len(rx.first.sleeps) = k
                 /\ \A i \in 1..k : rx.first.sleeps[i] = rx.delay * Pow(rx.backoff, i - 1)
           /\ rx.wrapper = "finished" =>
                 /\ rx.w.status = "returned"
                 /\ rx.w.value = Success
                 /\ rx.w.invocations = k + 1
                 /\ Len(rx.w.sleeps) = k
                 /\ \A i \in 1..k : rx.w.sleeps[i] = settings.api.RETRY_DELAY

\* both wrappers have returned after two failures, the first one having
\* slept a delay and then twice that delay
C6_Witness ==
    /\ rx.wrapper = "finished"
    /\ FailsThenSucceeds
    /\ rx.fail_first = 2
    /\ rx.backoff = 2
    /\ rx.first.sleeps = <<rx.delay, 2 * rx.delay>>
    /\ rx.w.status = "returned"
    /\ rx.w.invocations = 3

\* C7: retry_on_exception with max_retries = n around a function that always
\* raises a listed exception invokes it n+1 times, sleeps n times and
\* re-raises; an exception that is not listed propagates from the first call
\* with no sleep.
C7_ExhaustedRetries ==
    /\ rx.wrapper = "retry_on_exception" =>
          /\ rx.w.invocations <= rx.max_retries
          /\ Len(rx.w.sleeps) = rx.w.invocations
    /\ rx.wrapper # "retry_on_exception" /\ rx.always /\ rx.listed =>
          /\ rx.first.status = "raised"
          /\ rx.first.exc = "RequestException"
          /\ rx.first.invocations = rx.max_retries + 1
          /\ Len(rx.first.sleeps) = rx.max_retries
    /\ rx.wrapper # "retry_on_exception" /\ ~rx.listed
          /\ (rx.always \/ rx.fail_first >= 1) =>
          /\ rx.first.status = "raised"
          /\ rx.first.exc = "ValueError"
          /\ rx.first.invocations = 1
          /\ rx.first.sleeps = <<>>

\* retry_on_exception has given up on a function that always fails
C7_Witness ==
    /\ rx.wrapper # "retry_on_exception"
    /\ rx.always
    /\ rx.listed
    /\ rx.max_retries >= 2
    /\ rx.first.status = "raised"
    /\ rx.first.invocations = rx.max_retries + 1

---------------------------------------------------------------------------
(* Properties of title generation and backup inside rename_file *)

\* the call that just returned got as far as calling generate_title
ReachedGenerateTitle == Finished /\ last.text \notin {None, <<>>}

KeyUnset == settings.api.GEMINI_API_KEY = <<>>

\* C8: with the API key unset generate_title raises ValueError on its first
\* invocation, no HTTP request is made, the wrapper neither retries nor
\* sleeps, rename_file returns None without renaming, and the loop goes on.
C8_MissingKeySkipsFile ==
    ReachedGenerateTitle /\ KeyUnset =>
       /\ last.http = 0
       /\ last.w.sleeps = <<>>
       /\ last.w.retries = 0
       /\ last.w.invocations <= 1
       /\ settings.api.MAX_RETRIES >= 1 =>
             /\ last.w.invocations = 1
             /\ last.w.status = "raised"
             /\ last.w.exc = "ValueError"
       /\ last.result = None
       /\ last.post_dir = last.pre_dir
       /\ pc = (IF Len(calls) < Len(all_files) THEN "rename_file" ELSE "done")

\* the ValueError of one file has been caught and the loop stands before the
\* next file
C8_Witness ==
    /\ ReachedGenerateTitle
    /\ KeyUnset
    /\ last.w.exc = "ValueError"
    /\ pc = "rename_file"
    /\ Len(calls) < Len(all_files)

LacksShape == last.api_last \in {"no_candidates", "malformed_candidate"}

\* the last request of the call failed, which ended the wrapper
RequestsFailed == last.api_last \in {"request_exception", "status"}

\* C9 as stated: with the key unset, with a 200 body that lacks the expected
\* shape, or with all retries exhausted, the caller of generate_title gets
\* None or an empty title, never an exception.
C9_FailsByReturningNone ==
    ReachedGenerateTitle /\ (KeyUnset \/ LacksShape \/ RequestsFailed) =>
       /\ last.w.status = "returned"
       /\ last.w.value \in {None, <<>>}

\* C9 amended: the caller of generate_title gets None when the 200 body
\* lacks the expected shape; with the key unset it gets a ValueError from the
\* first invocation; when every request fails it gets the RequestException
\* of the MAX_RETRIES-th invocation.  (With MAX_RETRIES <= 0 the wrapper
\* does not invoke the function and returns None.)  In each case
\* rename_file returns None.
C9_FailureModes ==
    ReachedGenerateTitle =>
       /\ settings.api.MAX_RETRIES <= 0 =>
             /\ last.w.invocations = 0
             /\ last.w.status = "returned"
             /\ last.w.value = None
       /\ KeyUnset /\ settings.api.MAX_RETRIES >= 1 =>
             /\ last.w.status = "raised"
             /\ last.w.exc = "ValueError"
             /\ last.w.invocations = 1
       /\ LacksShape =>
             /\ last.w.status = "returned"
             /\ last.w.value = None
       /\ RequestsFailed =>
             /\ last.w.status = "raised"
             /\ last.w.exc = "RequestException"
             /\ last.w.invocations = settings.api.MAX_RETRIES
             /\ last.http = settings.api.MAX_RETRIES
       /\ KeyUnset \/ LacksShape \/ RequestsFailed =>
             /\ last.result = None
             /\ last.post_dir = last.pre_dir

\* two requests failed and the second failure was raised to rename_file
C9_Witness ==
    /\ ReachedGenerateTitle
    /\ RequestsFailed
    /\ last.w.status = "raised"
    /\ last.w.invocations = 2
    /\ last.result = None

BackupFailed == last.backup \in {"makedirs_failed", "copy_failed"}

\* what a rename_file call does, stated without its backup: the steps it
\* went through and its result are those its text, its title, the state of
\* the directory and os.rename determine
OutcomeOfRename(fr) ==
    /\ Len(fr.trace) >= 3
    /\ fr.trace[1] = "backup"
    /\ fr.trace[2] = "extract"
    /\ fr.why = "no_text" <=> fr.text \in {None, <<>>}
    /\ fr.text \notin {None, <<>>} => fr.trace[3] = "generate_title"
    /\ fr.why = "no_title" <=>
          fr.text \notin {None, <<>>} /\ fr.w.status = "returned" /\ fr.w.value = None
    /\ fr.why = "exists" <=> fr.new_path # None /\ fr.new_path \in DOMAIN fr.pre_dir
    /\ fr.result # None <=> fr.why = "renamed"
    /\ fr.why = "renamed" =>
          /\ fr.result = fr.new_path
          /\ fr.post_dir = os_rename(fr.pre_dir, fr.file_path, fr.new_path)
    /\ fr.why # "renamed" => fr.post_dir = fr.pre_dir

\* C10: with BACKUP_ENABLED, a create_backup that fails writes no backup and
\* rename_file goes on through extraction, title generation, collision check
\* and rename as it does after a successful backup.
C10_BackupFailureNotFatal ==
    Finished /\ settings.file.BACKUP_ENABLED =>
       /\ OutcomeOfRename(last)
       /\ BackupFailed => last.post_bak = last.pre_bak

\* a file whose backup failed has been renamed
C10_Witness ==
    /\ Finished
    /\ settings.file.BACKUP_ENABLED
    /\ BackupFailed
    /\ last.why = "renamed"
    /\ last.file_path \notin DOMAIN dir


---------------------------------------------------------------------------
(* The order of the steps of rename_file *)

\* the call ended before os.rename was reached: at extraction, at title
\* generation or at formatting
SkippedBeforeBackupStep ==
    \/ last.why \in {"no_text", "no_title"}
    \/ last.why = "exception" /\ last.new_path = None

\* C11 as stated: the backup is made after formatting, directly before the
\* rename, so a file skipped during extraction, title generation or
\* formatting has no backup created for it.
C11_SkippedFileHasNoBackup ==
    Finished /\ SkippedBeforeBackupStep =>
       /\ last.post_bak = last.pre_bak
       /\ last.post_bak_exists = last.pre_bak_exists

StepsWithBackup ==
    <<"backup", "extract", "generate_title", "format", "exists", "rename">>

StepsWithoutBackup == <<"extract", "generate_title", "format", "exists", "rename">>

\* the steps of trace, without the outcome appended at its end, are the
\* first steps of order
IsPrefixOfSteps(trace, order) ==
    /\ Len(trace) >= 1
    /\ Len(trace) - 1 <= Len(order)
    /\ \A i \in 1..(Len(trace) - 1) : trace[i] = order[i]

\* C11 amended: rename_file goes backing up -> extracting -> generating the
\* title -> formatting -> collision check -> renaming.  The backup is the
\* first step: while the file is being extracted, titled and formatted its
\* copy is already in the backup directory, and a file skipped at any of
\* these steps keeps that copy.
C11_BackupIsFirstStep ==
    /\ pc \in {"extract", "generate_title", "rename"} /\ cur.backup = "ok" =>
          /\ backup_dir_exists
          /\ cur.backup_path \in DOMAIN bak
          /\ bak[cur.backup_path] = dir[cur.file_path]
    /\ Finished =>
          /\ IsPrefixOfSteps(last.trace,
                 IF settings.file.BACKUP_ENABLED THEN StepsWithBackup
                 ELSE StepsWithoutBackup)
          /\ last.backup = "ok" =>
                /\ last.backup_path \in DOMAIN last.post_bak
                /\ last.post_bak[last.backup_path] = last.pre_dir[last.file_path]
                /\ last.backup_path \notin DOMAIN last.pre_bak

\* a file with no text was skipped at extraction and has its backup
C11_Witness ==
    /\ Finished
    /\ last.why = "no_text"
    /\ last.backup = "ok"
    /\ last.backup_path \in DOMAIN last.post_bak
    /\ last.trace = <<"backup", "extract", "no_text">>

---------------------------------------------------------------------------
(* The name of the backup copy *)

\* name is base followed by a non-empty suffix
HasSuffixAfter(name, base) ==
    /\ Len(name) > Len(base)
    /\ SubSeq(name, 1, Len(base)) = base

\* C12: with backup enabled, a successful create_backup has copied the file
\* into the backup directory under its base name plus a timestamp suffix and
\* returned that path; the name of the copy is never just the base name.
C12_BackupNameHasTimestamp ==
    Finished /\ settings.file.BACKUP_ENABLED /\ last.backup = "ok" =>
       /\ last.backup_path \in DOMAIN last.post_bak
       /\ last.backup_path # last.file_path
       /\ HasSuffixAfter(last.backup_path, last.file_path)

---------------------------------------------------------------------------
(* Properties of extract_text_from_page *)

ExtractedFromPage == rx.op = "extract_text_from_page" /\ rx.results # <<>>

\* C13: extract_text_from_page takes the OCR fallback if and only if the
\* text of the direct extraction is shorter than MIN_TEXT_LENGTH.  When it
\* is shorter, OCR is run once and the call returns the OCR result in place
\* of the direct text; otherwise OCR is not run and the direct text is
\* returned.
C13_OcrIffTextShort ==
    ExtractedFromPage =>
       LET r == rx.results[1]
           short == Len(r.direct) < rx.MIN_TEXT_LENGTH
       IN  /\ r.direct = strip(rx.page_text)
           /\ r.fallback <=> short
           /\ short /\ r.kind = "return" =>
                 /\ r.image_to_string = 1
                 /\ r.value = IF rx.ocr.kind = "raise" THEN <<>> ELSE strip(rx.ocr.value)
           /\ short /\ rx.pixmap_ok => r.kind = "return"
           /\ ~short =>
                 /\ r.kind = "return"
                 /\ r.image_to_string = 0
                 /\ r.value = r.direct

\* a direct text one character below the threshold was replaced by the OCR
\* result
C13_Witness ==
    /\ ExtractedFromPage
    /\ rx.MIN_TEXT_LENGTH = 3
    /\ Len(rx.results[1].direct) = 2
    /\ rx.results[1].fallback
    /\ rx.results[1].value = <<"a">>

---------------------------------------------------------------------------
(* Properties of sanitize_filename and format_text_by_style *)

SanitizedTwice == rx.op = "sanitize_filename" /\ Len(rx.results) = 2

\* C14 as stated: for every text and every configuration, sanitizing the
\* sanitized text yields the sanitized text.
C14_SanitizeIdempotent ==
    SanitizedTwice => rx.results[2] = rx.results[1]

\* the limits are ordered: 0 <= TITLE_MAX_LENGTH and
\* TITLE_MIN_LENGTH <= TITLE_MAX_LENGTH
LimitsOrdered(naming) ==
    /\ 0 <= naming.TITLE_MAX_LENGTH
    /\ naming.TITLE_MIN_LENGTH <= naming.TITLE_MAX_LENGTH

\* C14 amended: for every text and every configuration whose limits are
\* ordered (REMOVE_SPECIAL_CHARS on or off, any PRESERVE_CHARS), sanitizing
\* the sanitized text yields the sanitized text.
C14_SanitizeIdempotentWithinLimits ==
    SanitizedTwice /\ LimitsOrdered(rx.naming) => rx.results[2] = rx.results[1]

\* a text that was cleaned, cut and padded, and came out of the second call
\* as it came out of the first
C14_Witness ==
    /\ SanitizedTwice
    /\ LimitsOrdered(rx.naming)
    /\ rx.text = <<"U+00E9", " ", "a">>
    /\ rx.naming.REMOVE_SPECIAL_CHARS
    /\ rx.naming.TITLE_MAX_LENGTH = 2
    /\ rx.naming.TITLE_MIN_LENGTH = 2
    /\ rx.results[1] = <<"e", "_">>
    /\ rx.results[2] = rx.results[1]

FormattedTwice == rx.op = "format_text_by_style" /\ Len(rx.results) = 2

\* C15: for each of the five styles and every text, tokenizing the output of
\* format_text_by_style and formatting it again with the same style yields
\* the same tokens in the same order and casing: formatting the formatted
\* text yields the formatted text.
C15_FormatRoundTrip ==
    FormattedTwice => rx.results[2] = rx.results[1]

\* the text after normalization, replacement of the disallowed characters
\* and collapse of the whitespace, before any truncation
Collapsed(text, naming) ==
    join(split(IF naming.REMOVE_SPECIAL_CHARS
               THEN sub_disallowed(nfkd(text), AsciiAlnum \cup naming.PRESERVE_CHARS, FALSE)
               ELSE nfkd(text)),
         <<" ">>)

\* ws are the first words of vs
IsPrefix(ws, vs) ==
    /\ Len(ws) <= Len(vs)
    /\ \A i \in 1..Len(ws) : ws[i] = vs[i]

\* C16: when sanitize_filename truncates a text longer than TITLE_MAX_LENGTH
\* it never splits a word: the words of the result are whole words of the
\* whitespace-collapsed text, also when the first word alone is longer than
\* the limit.  (Stated where no padding follows: TITLE_MIN_LENGTH = 0.)
C16_TruncationKeepsWholeWords ==
    /\ rx.op = "sanitize_filename"
    /\ Len(rx.results) >= 1
    /\ rx.naming.TITLE_MIN_LENGTH = 0
    /\ rx.naming.TITLE_MAX_LENGTH >= 0
    /\ Len(Collapsed(rx.text, rx.naming)) > rx.naming.TITLE_MAX_LENGTH
    => IsPrefix(split(rx.results[1]), split(Collapsed(rx.text, rx.naming)))

---------------------------------------------------------------------------
(* The file name rename_file builds *)

\* rename_file has formatted a title: the length of the stem of new_path
StemLength(fr) == Len(fr.new_path) - Len(splitext_ext(fr.file_path))

\* C17: the title rename_file uses as the file stem, sanitize_filename
\* followed by format_text_by_style, is at least TITLE_MIN_LENGTH and at
\* most TITLE_MAX_LENGTH characters long.
C17_StemWithinLengthBounds ==
    Finished /\ last.new_path # None
       /\ settings.naming.TITLE_MIN_LENGTH <= settings.naming.TITLE_MAX_LENGTH =>
       /\ settings.naming.TITLE_MIN_LENGTH <= StemLength(last)
       /\ StemLength(last) <= settings.naming.TITLE_MAX_LENGTH

---------------------------------------------------------------------------
(* The exit code of main() *)

\* the entries of the directory process_directory would pass to rename_file
AcceptedEntries == {n \in DOMAIN dir0 : Accepted(n)}

\* process_directory called rename_file for every accepted entry and none
\* was renamed
EveryFileSkipped ==
    /\ Len(calls) = Cardinality(AcceptedEntries)
    /\ AcceptedEntries # {}
    /\ dir = dir0

\* C18: main() returns 0 if and only if process_directory renamed at least
\* one file, and returns 1 in every other case, which is one of: directory
\* missing, no allowed files, every file skipped, or an exception raised
\* during the settings update or the processing.
C18_ExitCodeTellsRenames ==
    pc = "exit" =>
       /\ main_return.exit_code \in {0, 1}
       /\ main_return.exit_code = 0 <=> dir # dir0
       /\ main_return.exit_code = 1 =>
             \/ ~directory_exists
             \/ AcceptedEntries = {}
             \/ EveryFileSkipped
             \/ main_return.raised_in \in {"update_settings", "process_files"}

---------------------------------------------------------------------------
(* Properties of get_naming_template *)

TemplateLookedUp == rx.op = "get_naming_template" /\ rx.results # <<>>

Recognized(str) == str \in DOMAIN TEMPLATES

\* C19 as stated: a recognized name gets its template; None, an empty name
\* and an unrecognized name get the template registered under
\* DEFAULT_TEMPLATE.  (Stated for a registered DEFAULT_TEMPLATE.)
C19_FallbackIsDefaultTemplate ==
    TemplateLookedUp /\ Recognized(rx.DEFAULT_TEMPLATE) =>
       rx.results[1] =
          IF ~rx.template_name.is_none /\ Recognized(rx.template_name.str)
          THEN TEMPLATES[rx.template_name.str]
          ELSE TEMPLATES[rx.DEFAULT_TEMPLATE]

\* C19 amended: a recognized name gets its template; None and the empty name
\* get the template registered under DEFAULT_TEMPLATE when that name is
\* registered; an unrecognized name, and None or the empty name under an
\* unregistered DEFAULT_TEMPLATE, get the template registered under "custom".
C19_FallbackIsCustomTemplate ==
    TemplateLookedUp =>
       LET arg == rx.template_name
           falsy == arg.is_none \/ arg.str = ""
       IN  /\ ~falsy /\ Recognized(arg.str) => rx.results[1] = TEMPLATES[arg.str]
           /\ falsy /\ Recognized(rx.DEFAULT_TEMPLATE) =>
                 rx.results[1] = TEMPLATES[rx.DEFAULT_TEMPLATE]
           /\ ~falsy /\ ~Recognized(arg.str) => rx.results[1] = "{title}"
           /\ falsy /\ ~Recognized(rx.DEFAULT_TEMPLATE) => rx.results[1] = "{title}"

\* an unregistered name was looked up under the default "research" and got
\* the custom template
C19_Witness ==
    /\ TemplateLookedUp
    /\ rx.template_name = TemplateName("thesis")
    /\ rx.DEFAULT_TEMPLATE = "research"
    /\ rx.results[1] = "{title}"
    /\ rx.results[1] # TEMPLATES["research"]

---------------------------------------------------------------------------
(* A kebab-case title end to end *)

\* t is lower-case kebab tokens: letters and digits in non-empty groups
\* joined by single hyphens
IsKebabTitle(t) ==
    /\ t # None
    /\ Len(t) >= 1
    /\ \A i \in 1..Len(t) : t[i] \in LowerLetters \cup Digits \cup {"-"}
    /\ t[1] # "-"
    /\ t[Len(t)] # "-"
    /\ \A i \in 1..(Len(t) - 1) : ~(t[i] = "-" /\ t[i + 1] = "-")

\* the extension of an entry of the model that the filter accepts: its
\* last four characters
ExtensionOf(f) == SubSeq(f, Len(f) - 3, Len(f))

\* C20: under kebab-case with the default limits, when the text was
\* extracted and the API answered 200 with a title of lower-case kebab
\* tokens whose length is within the limits ("smith-2023-widgets"), the
\* title passes through sanitize_filename and format_text_by_style
\* unchanged, the new name is the title plus the original extension, and if
\* the directory has no entry of that name the file is renamed to it and
\* rename_file returns that path.
C20_KebabTitleEndToEnd ==
    /\ Finished
    /\ settings.naming.STYLE = "kebab-case"
    /\ last.api_last = "title"
    /\ IsKebabTitle(last.api_text)
    /\ settings.naming.TITLE_MIN_LENGTH <= Len(last.api_text)
    /\ Len(last.api_text) <= settings.naming.TITLE_MAX_LENGTH
    => LET name == last.api_text \o ExtensionOf(last.file_path)
       IN  /\ last.text \notin {None, <<>>}
           /\ last.w.value = last.api_text
           /\ last.new_path = name
           /\ name \in DOMAIN last.pre_dir => last.why = "exists"
           /\ name \notin DOMAIN last.pre_dir /\ last.why # "exception" =>
                 /\ last.why = "renamed"
                 /\ last.result = name
                 /\ DOMAIN last.post_dir =
                       (DOMAIN last.pre_dir \ {last.file_path}) \cup {name}
                 /\ last.post_dir[name] = last.pre_dir[last.file_path]

\* a.pdf got the title smith-2023-widgets and is now smith-2023-widgets.pdf
C20_Witness ==
    /\ Finished
    /\ settings.naming.STYLE = "kebab-case"
    /\ last.file_path = <<"a", ".", "p", "d", "f">>
    /\ last.api_text = SmithTitle
    /\ last.why = "renamed"
    /\ last.result = SmithTitle \o <<".", "p", "d", "f">>
    /\ last.result \in DOMAIN dir
    /\ last.file_path \notin DOMAIN dir

---------------------------------------------------------------------------
(* How often the title generator is attempted *)

\* C21: when every request of a call fails (a RequestException or a status
\* other than 200), generate_title is invoked MAX_RETRIES + 1 times, the
\* initial attempt and MAX_RETRIES retries, with a sleep of RETRY_DELAY
\* between consecutive attempts; then the exception is surfaced,
\* rename_file returns None and the loop goes on with the next file.
C21_RetriesAfterInitialAttempt ==
    ReachedGenerateTitle /\ ~KeyUnset /\ RequestsFailed =>
       /\ last.w.invocations = settings.api.MAX_RETRIES + 1
       /\ last.http = last.w.invocations
       /\ Len(last.w.sleeps) = last.w.invocations - 1
       /\ \A i \in 1..Len(last.w.sleeps) : last.w.sleeps[i] = settings.api.RETRY_DELAY
       /\ last.w.status = "raised"
       /\ last.w.exc = "RequestException"
       /\ last.result = None
       /\ pc = (IF Len(calls) < Len(all_files) THEN "rename_file" ELSE "done")

---------------------------------------------------------------------------
(* The retry-decorated extractor of pdf_smart_rename.py *)

\* Config.MAX_RETRIES and Config.RETRY_DELAY, which the decorator takes when
\* it is given no max_retries and no delay, and the default of backoff
DEFAULT_MAX_RETRIES == 3
DEFAULT_RETRY_DELAY == 1
DEFAULT_BACKOFF == 2

\* retry_on_exception as extract_text_from_first_page is decorated with it:
\* only the tuple of exceptions is given
DecoratedWithDefaults ==
    /\ rx.max_retries = DEFAULT_MAX_RETRIES
    /\ rx.delay = DEFAULT_RETRY_DELAY
    /\ rx.backoff = DEFAULT_BACKOFF

\* the wrapped function raises a listed exception on every invocation
PersistentListedError == rx.always /\ rx.listed

\* all the sleeps of wrapper state w lasted the same time
SameDelayEveryRetry(w) ==
    \A i, j \in 1..Len(w.sleeps) : w.sleeps[i] = w.sleeps[j]

\* C22 as stated: with the defaults MAX_RETRIES = 3 and RETRY_DELAY = 1 the
\* decorated extractor is attempted at most 3 times in total on errors that
\* persist, and the delay slept between attempts is the same for every retry.
C22_ThreeAttemptsFixedDelay ==
    DecoratedWithDefaults /\ PersistentListedError =>
       /\ rx.wrapper = "retry_on_exception" =>
             /\ rx.w.invocations <= DEFAULT_MAX_RETRIES
             /\ SameDelayEveryRetry(rx.w)
       /\ rx.wrapper # "retry_on_exception" =>
             /\ rx.first.invocations <= DEFAULT_MAX_RETRIES
             /\ SameDelayEveryRetry(rx.first)

\* C22 amended: with the defaults the decorated extractor is attempted at
\* most MAX_RETRIES + 1 = 4 times in total; on errors that persist it is
\* attempted exactly 4 times, the delays slept between the attempts double
\* from RETRY_DELAY on (1, 2 and 4 seconds), and the last error is re-raised.
C22_FourAttemptsDoublingDelay ==
    DecoratedWithDefaults =>
       /\ rx.wrapper = "retry_on_exception" =>
             rx.w.invocations <= DEFAULT_MAX_RETRIES + 1
       /\ rx.wrapper # "retry_on_exception" =>
             rx.first.invocations <= DEFAULT_MAX_RETRIES + 1
       /\ rx.wrapper # "retry_on_exception" /\ PersistentListedError =>
             /\ rx.first.status = "raised"
             /\ rx.first.invocations = DEFAULT_MAX_RETRIES + 1
             /\ rx.first.sleeps = <<DEFAULT_RETRY_DELAY,
                                    DEFAULT_RETRY_DELAY * DEFAULT_BACKOFF,
                                    DEFAULT_RETRY_DELAY * DEFAULT_BACKOFF * DEFAULT_BACKOFF>>

\* the wrapper with the defaults has given up after its fourth attempt
C22_Witness ==
    /\ DecoratedWithDefaults
    /\ PersistentListedError
    /\ rx.wrapper # "retry_on_exception"
    /\ rx.first.status = "raised"
    /\ rx.first.invocations = 4
    /\ Len(rx.first.sleeps) = 3

---------------------------------------------------------------------------
(* utils.sanitize_filename applied twice *)

\* utils.sanitize_filename has been applied to a string and to its result
LegacySanitizedTwice == rx.op = "utils.sanitize_filename" /\ Len(rx.results) = 2

\* C23: utils.sanitize_filename is idempotent: for every string, with Hebrew
\* characters, with several words or longer than max_length, and for every
\* max_length, sanitizing the sanitized string gives the sanitized string.
C23_LegacySanitizeIdempotent ==
    LegacySanitizedTwice => rx.results[2] = rx.results[1]

---------------------------------------------------------------------------
(* The mapping process_directory returns *)

\* process_directory has returned renamed_files
Returned == pc = "done"

\* C24: the mapping process_directory returns describes the directory as
\* the run leaves it: for every entry old -> new the path new exists and the
\* path old does not, and distinct entries have distinct new paths, for
\* every order of the listing and every assignment of titles to files.
C24_MappingDescribesDirectory ==
    Returned =>
       /\ \A old \in DOMAIN renamed_files :
             /\ renamed_files[old] \in DOMAIN dir
             /\ old \notin DOMAIN dir
       /\ \A o1, o2 \in DOMAIN renamed_files :
             o1 # o2 => renamed_files[o1] # renamed_files[o2]

\* C24 amended: for every entry old -> new of the returned mapping the path
\* new exists and holds the file that was at old when the run began, and
\* distinct entries have distinct new paths; the path old does not exist
\* unless a file renamed later in the run was given the vacated name, in
\* which case old is the new path of another entry and holds that file.
C24_MappingDescribesRenames ==
    Returned =>
       /\ \A old \in DOMAIN renamed_files :
             /\ old \in DOMAIN dir0
             /\ renamed_files[old] \in DOMAIN dir
             /\ dir[renamed_files[old]] = dir0[old]
             /\ old \in DOMAIN dir =>
                   \E other \in DOMAIN renamed_files \ {old} :
                      /\ renamed_files[other] = old
                      /\ dir[old] = dir0[other]
       /\ \A o1, o2 \in DOMAIN renamed_files :
             o1 # o2 => renamed_files[o1] # renamed_files[o2]

\* a run has renamed two files, the second to the name the first one left
C24_Witness ==
    /\ Returned
    /\ Cardinality(DOMAIN renamed_files) = 2
    /\ \E old \in DOMAIN renamed_files :
          /\ old \in DOMAIN dir
          /\ \E other \in DOMAIN renamed_files \ {old} : renamed_files[other] = old

---------------------------------------------------------------------------
(* A file name that is only an extension *)

\* C26: rename_file never renames a file to a name whose stem is empty:
\* for every title of the API and every naming style, the formatted title
\* is non-empty or the file is skipped and left at its original path.
C26_NeverEmptyStem ==
    Finished /\ last.new_path # None =>
       \/ StemLength(last) > 0
       \/ /\ last.result = None
          /\ last.post_dir = last.pre_dir

---------------------------------------------------------------------------
(* retry_on_api_error and a MAX_RETRIES that is not positive *)

\* C27: for every value of settings.api.MAX_RETRIES, zero and negative ones
\* included, retry_on_api_error invokes the wrapped function at least once,
\* and it ends only by returning the value the function returned or by
\* raising the exception the function raised.
C27_InvokedAtLeastOnce ==
    rx.wrapper = "finished" =>
       /\ rx.w.invocations >= 1
       /\ LET out == func(rx.w.invocations)
          IN  IF out.kind = "return"
              THEN rx.w.status = "returned" /\ rx.w.value = out.value
              ELSE rx.w.status = "raised" /\ rx.w.exc = out.value

---------------------------------------------------------------------------
(* process_directory run again on the directory an earlier run left *)

MaxRuns == 2

\* the settings of the runs: backup enabled, the API key set
RunsSettings ==
    {s \in PipelineSettings :
        /\ s.file.BACKUP_ENABLED
        /\ ~s.file.PROCESS_HIDDEN_FILES
        /\ s.api.GEMINI_API_KEY # <<>>
        /\ s.api.MAX_RETRIES = 1
        /\ s.naming.STYLE = "kebab-case"}

\* the entries of the directory of the runs
RunsFileNames == {<<"a", ".", "p", "d", "f">>, <<"b", ".", "p", "d", "f">>}

InitRuns ==
    /\ settings \in RunsSettings
    /\ directory_exists = TRUE
    /\ \E S \in SUBSET RunsFileNames :
          /\ Cardinality(S) <= MaxEntries
          /\ dir = [n \in S |-> n]
    /\ dir0 = dir
    /\ backup_dir_exists = FALSE
    /\ bak = EmptyDir
    /\ pc = "start"
    /\ all_files = <<>>
    /\ idx = 0
    /\ renamed_files = EmptyDir
    /\ calls = <<>>
    /\ last = NoCall
    /\ cur = NoCall
    /\ main_return = NotReturned
    /\ rx = [wrapper |-> None, run |-> 1]

\* process_directory has returned and is called again on the same
\* directory: renamed_files = {} (line 133), the directory and its backup
\* directory are as the run before left them
process_directory_again ==
    /\ pc = "done"
    /\ rx.run < MaxRuns
    /\ rx' = [rx EXCEPT !.run = @ + 1]
    /\ pc' = "start"
    /\ dir0' = dir
    /\ all_files' = <<>>
    /\ idx' = 0
    /\ renamed_files' = EmptyDir
    /\ calls' = <<>>
    /\ last' = NoCall
    /\ cur' = NoCall
    /\ UNCHANGED <<settings, directory_exists, dir, backup_dir_exists, bak, main_return>>

NextRuns ==
    \/ process_directory
    \/ create_backup
    \/ extract_text
    \/ generate_title
    \/ rename
    \/ process_directory_again

SpecRuns == InitRuns /\ [][NextRuns]_vars

\* the step is a create_backup that succeeded
BackupCreated ==
    /\ pc = "rename_file"
    /\ cur'.file_path # None
    /\ cur'.backup = "ok"

\* C25: over any sequence of process_directory runs on one directory with
\* backup enabled, a successful create_backup adds a new file to the backup
\* directory and leaves every backup that is there as it is, so that the
\* number of backup files is the number of successful create_backup calls.
C25_BackupNeverOverwritten ==
    [][BackupCreated =>
          /\ Cardinality(DOMAIN bak') = Cardinality(DOMAIN bak) + 1
          /\ \A n \in DOMAIN bak : n \in DOMAIN bak' /\ bak'[n] = bak[n]]_vars

---------------------------------------------------------------------------
(* The pipeline of pdf_smart_rename.py: rename_files_in_directory and       *)
(* rename_file, with utils.create_backup and the retry_on_exception         *)
(* decorators                                                               *)

MaxClock == 1

\* the configurations Config.load() builds: the defaults of the class, with
\* the API key and the naming style taken from the environment
LegacySettings ==
    [file : [ALLOWED_FILE_TYPES : {{<<".", "p", "d", "f">>}},
             PROCESS_HIDDEN_FILES : {FALSE},
             BACKUP_ENABLED : {TRUE}],
     api : [GEMINI_API_KEY : {<<>>, <<"k">>},
            MAX_RETRIES : {DEFAULT_MAX_RETRIES},
            RETRY_DELAY : {DEFAULT_RETRY_DELAY}],
     naming : {DefaultNaming(st) : st \in PipelineStyles}]

\* datetime.now().strftime('%Y%m%d_%H%M%S') when the clock shows the now-th
\* second: a text that differs from second to second
strftime(now) == <<"T">> \o [i \in 1..now |-> "1"]

\* backup_filename = f"{os.path.basename(file_path)}.{timestamp}.bak"
utils_backup_filename(file_path, now) ==
    file_path \o <<".">> \o strftime(now) \o <<".", "b", "a", "k">>

\* a create_backup that returns None when makedirs or copy2 fails
utils_create_backup_swallows(out, backup_path) ==
    IF out = "ok" THEN Returns(backup_path) ELSE Returns(None)

\* utils.create_backup with makedirs and copy2 ending with out: there is no
\* try around them, their exception leaves create_backup
utils_create_backup(out, backup_path) ==
    IF out = "ok" THEN Returns(backup_path) ELSE Raises("OSError")

\* the frame of a rename_file call of pdf_smart_rename.py: xw is the
\* wrapper of extract_text_from_first_page, w that of
\* generate_title_with_gemini
LegacyNewCall(f) ==
    [xw |-> NewWrapper(settings.api.RETRY_DELAY)] @@
    [NewCall(f) EXCEPT !.w = NewWrapper(settings.api.RETRY_DELAY)]

\* rename_file returns res to the loop of rename_files_in_directory
LegacyReturn(res, why, frame) ==
    /\ last' = [frame EXCEPT !.trace = Append(@, why)] @@
                [result |-> res, why |-> why,
                 post_dir |-> dir', post_bak |-> bak',
                 post_bak_exists |-> backup_dir_exists']
    /\ renamed_files' =
          IF res # None
          THEN [p \in DOMAIN renamed_files \cup {frame.file_path} |->
                   IF p = frame.file_path THEN res ELSE renamed_files[p]]
          ELSE renamed_files
    /\ idx' = idx + 1
    /\ pc' = IF idx + 1 > Len(all_files) THEN "done" ELSE "legacy_rename_file"
    /\ cur' = NoCall

InitLegacy ==
    /\ settings \in LegacySettings
    /\ directory_exists = TRUE
    /\ \E S \in SUBSET FileNames :
          /\ Cardinality(S) <= MaxEntries
          /\ dir = [n \in S |-> n]
    /\ dir0 = dir
    /\ backup_dir_exists = FALSE
    /\ bak = EmptyDir
    /\ pc = "legacy_start"
    /\ all_files = <<>>
    /\ idx = 0
    /\ renamed_files = EmptyDir
    /\ calls = <<>>
    /\ last = NoCall
    /\ cur = NoCall
    /\ main_return = NotReturned
    /\ rx = [wrapper |-> None, now |-> 0]

\* rename_files_in_directory up to its for loop (lines 155-163)
rename_files_in_directory ==
    /\ pc = "legacy_start"
    /\ \E listing \in Orders(DOMAIN dir) :
          /\ all_files' = FilteredListing(listing, settings.file)
          /\ IF all_files' = <<>>
             THEN pc' = "done" /\ idx' = idx
             ELSE pc' = "legacy_rename_file" /\ idx' = 1
    /\ UNCHANGED <<settings, directory_exists, dir0, dir, backup_dir_exists, bak,
                   renamed_files, calls, last, cur, rx, main_return>>

\* rename_file entered for all_files[idx]: lines 117-120 and
\* utils.create_backup, at a second of the clock not before the last one
legacy_create_backup ==
    /\ pc = "legacy_rename_file"
    /\ calls' = Append(calls, all_files[idx])
    /\ UNCHANGED <<settings, directory_exists, dir0, dir, all_files, main_return>>
    /\ LET f == all_files[idx]
           frame == LegacyNewCall(f)
       IN  IF ~settings.file.BACKUP_ENABLED
           THEN /\ cur' = [frame EXCEPT !.backup = "disabled"]
                /\ pc' = "legacy_extract"
                /\ last' = NoCall
                /\ UNCHANGED <<backup_dir_exists, bak, idx, renamed_files, rx>>
           ELSE \E out \in BackupOutcomes, now \in rx.now..MaxClock :
                   LET res == utils_create_backup(out, utils_backup_filename(f, now))
                       fr == [frame EXCEPT !.backup = out, !.trace = <<"backup">>,
                                           !.backup_path = IF res.kind = "return" THEN res.value
                                                           ELSE None]
                   IN  /\ rx' = [rx EXCEPT !.now = now]
                       /\ backup_dir_exists' = (backup_dir_exists \/ out # "makedirs_failed")
                       /\ bak' = IF out = "ok"
                                 THEN copy2(bak, utils_backup_filename(f, now), dir[f])
                                 ELSE bak
                       /\ IF res.kind = "raise"
                          THEN LegacyReturn(None, "exception", fr)
                          ELSE /\ cur' = fr
                               /\ pc' = "legacy_extract"
                               /\ last' = NoCall
                               /\ UNCHANGED <<idx, renamed_files>>

\* what one invocation of extract_text_from_first_page can do: fitz.open
\* raises FileDataError, OCR raises an error of its own, or the text of the
\* page is returned stripped
LegacyExtractOutcomes ==
    {Raises("FileDataError"), Raises("TesseractError"), Returns(<<>>), Returns(<<"t">>)}

\* rename_file lines 123-126: one invocation of extract_text_from_first_page
\* by its wrapper, retry_on_exception(exceptions=(fitz.FileDataError, IOError))
legacy_extract_text ==
    /\ pc = "legacy_extract"
    /\ UNCHANGED <<settings, directory_exists, dir0, dir, backup_dir_exists, bak,
                   all_files, calls, rx, main_return>>
    /\ \E out \in LegacyExtractOutcomes :
          LET xw == retry_on_exception(cur.xw, out, {"FileDataError", "IOError"},
                                       settings.api.MAX_RETRIES, DEFAULT_BACKOFF)
              frame == [cur EXCEPT !.xw = xw,
                                   !.trace = IF cur.xw.invocations = 0
                                             THEN Append(@, "extract") ELSE @]
          IN  IF xw.status = "running"
              THEN /\ cur' = frame
                   /\ UNCHANGED <<pc, idx, renamed_files, last>>
              ELSE IF xw.status = "raised"
              THEN LegacyReturn(None, "exception", frame)
              ELSE IF xw.value = <<>>
              THEN LegacyReturn(None, "no_text", [frame EXCEPT !.text = xw.value])
              ELSE /\ cur' = [frame EXCEPT !.text = xw.value,
                                           !.trace = Append(@, "generate_title")]
                   /\ pc' = "legacy_generate_title"
                   /\ UNCHANGED <<idx, renamed_files, last>>

\* FileProcessor.format_title: utils.sanitize_filename, then the style
format_title(title, naming) ==
    format_text_by_style(utils_sanitize_filename(title, NoMaxLength), naming)

\* the body of generate_title_with_gemini once requests.post has ended with
\* resp (lines 58-76)
generate_title_with_gemini(resp, naming) ==
    IF resp.kind = "request_exception" THEN Raises("RequestException")
    ELSE IF resp.kind = "status" /\ resp.code # 200 THEN Raises("RequestException")
    ELSE IF resp.shape = "no_candidates" THEN Returns(<<>>)
    ELSE IF resp.shape = "malformed_candidate" THEN Raises("KeyError")
    ELSE LET title == format_title(strip(resp.text), naming)
         IN  IF title = IndexError THEN Raises("IndexError") ELSE Returns(title)

\* rename_file lines 128-131: one invocation of generate_title_with_gemini
\* by its wrapper, retry_on_exception(exceptions=(requests.RequestException,))
legacy_generate_title ==
    /\ pc = "legacy_generate_title"
    /\ UNCHANGED <<settings, directory_exists, dir0, dir, backup_dir_exists, bak,
                   all_files, calls, rx, main_return>>
    /\ \E resp \in IF settings.api.GEMINI_API_KEY = <<>> THEN {[kind |-> "no_key"]}
                   ELSE Responses :
          LET out == IF resp.kind = "no_key" THEN Raises("ValueError")
                     ELSE generate_title_with_gemini(resp, settings.naming)
              w == retry_on_exception(cur.w, out, {"RequestException"},
                                      settings.api.MAX_RETRIES, DEFAULT_BACKOFF)
              frame == [cur EXCEPT !.w = w,
                                   !.http = IF resp.kind = "no_key" THEN @ ELSE @ + 1,
                                   !.api_last = IF resp.kind = "body" THEN resp.shape
                                                ELSE resp.kind]
          IN  IF w.status = "running"
              THEN /\ cur' = frame
                   /\ UNCHANGED <<pc, idx, renamed_files, last>>
              ELSE IF w.status = "raised"
              THEN LegacyReturn(None, "exception", frame)
              ELSE IF w.value = <<>>
              THEN LegacyReturn(None, "no_title", frame)
              ELSE /\ cur' = frame
                   /\ pc' = "legacy_rename"
                   /\ UNCHANGED <<idx, renamed_files, last>>

\* rename_file lines 133-145
legacy_rename ==
    /\ pc = "legacy_rename"
    /\ UNCHANGED <<settings, directory_exists, dir0, backup_dir_exists, bak,
                   all_files, calls, rx, main_return>>
    /\ LET f == cur.file_path
           new_path == cur.w.value \o splitext_ext(f)
           fr2 == [cur EXCEPT !.new_path = new_path, !.trace = Append(@, "exists")]
           fr3 == [fr2 EXCEPT !.trace = Append(@, "rename")]
       IN  IF path_exists(dir, new_path)
           THEN dir' = dir /\ LegacyReturn(None, "exists", fr2)
           ELSE \E ok \in BOOLEAN :
                   IF ok
                   THEN dir' = os_rename(dir, f, new_path)
                        /\ LegacyReturn(new_path, "renamed", fr3)
                   ELSE dir' = dir /\ LegacyReturn(None, "exception", fr3)

NextLegacy ==
    \/ rename_files_in_directory
    \/ legacy_create_backup
    \/ legacy_extract_text
    \/ legacy_generate_title
    \/ legacy_rename

SpecLegacy == InitLegacy /\ [][NextLegacy]_vars

\* create_backup raised in the call that has just returned
LegacyBackupRaised ==
    /\ Finished
    /\ settings.file.BACKUP_ENABLED
    /\ last.backup \in {"makedirs_failed", "copy_failed"}

\* C28: in the pipeline of pdf_smart_rename.py with BACKUP_ENABLED a file is
\* renamed only after its backup copy was written earlier in the same call:
\* when create_backup raises, rename_file returns None, neither extraction
\* nor an API call nor a rename has happened for the file, and the file is
\* still at its original path.
C28_LegacyBackupFailureSkipsFile ==
    /\ LegacyBackupRaised =>
          /\ last.result = None
          /\ last.trace = <<"backup", "exception">>
          /\ last.xw.invocations = 0
          /\ last.text = None
          /\ last.w.invocations = 0
          /\ last.http = 0
          /\ last.new_path = None
          /\ last.post_dir = last.pre_dir
          /\ last.file_path \in DOMAIN dir
          /\ last.post_bak = last.pre_bak
    /\ Finished /\ settings.file.BACKUP_ENABLED /\ last.result # None =>
          /\ last.backup = "ok"
          /\ last.trace[1] = "backup"
          /\ last.backup_path \in DOMAIN last.post_bak
          /\ last.post_bak[last.backup_path] = last.pre_dir[last.file_path]

\* copy2 failed for the first of two files: create_backup raised,
\* rename_file returned None and the loop is about to call rename_file for
\* the second file
C28_Witness ==
    /\ LegacyBackupRaised
    /\ last.backup = "copy_failed"
    /\ last.result = None
    /\ Len(all_files) = 2
    /\ last.file_path = all_files[1]
    /\ pc = "legacy_rename_file"
====
